---- MODULE Spec2Model ----
(***************************************************************************)
(* Catalog & order synchronisation of the laiterie ordering application:   *)
(* the AppProvider of src/contexts/AppContext.tsx (in-memory React state), *)
(* the three tables of the backing store it talks to, the device-local     *)
(* key-value store, and the cart of src/screens/MainScreen.tsx that feeds  *)
(* addOrder.                                                               *)
(*                                                                         *)
(* Encoding.  A product id 'prod_n' is the integer n (1..6 are the ids of  *)
(* INITIAL_PRODUCTS, larger ones stand for `prod_<Date.now()>_<random>`).  *)
(* Order and session ids are integers.  A price is kept in cents.  A       *)
(* record field that is undefined in JavaScript is a field that is not in  *)
(* the DOMAIN of the TLA+ record.  null / undefined where a whole record   *)
(* is expected is the empty sequence, a present record r is <<r>>.  An     *)
(* order item keeps item.product.id and item.quantity, the two fields the  *)
(* provider reads.  Each handler runs to completion before the next user   *)
(* action (ProtectedRoute shows a spinner while isLoading).                *)
(***************************************************************************)
EXTENDS Integers, Sequences, FiniteSets, TLC

\* ---------------------------------------------------------------- bounds
MaxGen == 2          \* generated product ids available to addProduct / bulk
MaxOrders == 1       \* orders that may be submitted
MaxSessions == 1     \* session ids available to login
MaxStock == 1        \* largest stock value typed into a form or a CSV cell
MaxQty == 1          \* largest quantity of one product in a cart
MaxRows == 2         \* rows of one bulkAddProducts call
MaxClock == 4        \* last reading of the wall clock
MaxInFlight == 2     \* operations that may be in flight at the same time

\* ------------------------------------------------------------- constants
ADMIN_EMAIL == "admin@laiterie.com"

PENDING == "Pending"
PREPARING == "In Preparation"
SHIPPED == "Shipped"
DELIVERED == "Delivered"
CANCELLED == "Cancelled"
OrderStatus == {PENDING, PREPARING, SHIPPED, DELIVERED, CANCELLED}

INITIAL_PRODUCTS ==
  << [id |-> 1, name |-> "Premium Coffee Beans", description |-> "1kg bag of whole arabica beans.",
      price |-> 2599, imageUrl |-> "https://picsum.photos/seed/coffeebeans/200/200",
      barcode |-> "1234567890123", quantityType |-> "kg", stock |-> 100, isVisible |-> TRUE],
     [id |-> 2, name |-> "Artisan Tea Selection", description |-> "Box of 20 assorted tea bags.",
      price |-> 1550, imageUrl |-> "https://picsum.photos/seed/teabox/200/200",
      barcode |-> "1234567890124", quantityType |-> "unit", stock |-> 50, isVisible |-> TRUE],
     [id |-> 3, name |-> "Organic Chocolate Bar", description |-> "70% cocoa, fair trade.",
      price |-> 500, imageUrl |-> "https://picsum.photos/seed/chocolatebar/200/200",
      barcode |-> "1234567890125", quantityType |-> "unit", stock |-> 200, isVisible |-> TRUE],
     [id |-> 4, name |-> "Fresh Croissants (Dozen)", description |-> "Baked fresh daily.",
      price |-> 1200, imageUrl |-> "https://picsum.photos/seed/croissants/200/200",
      barcode |-> "1234567890126", quantityType |-> "unit", stock |-> 30, isVisible |-> TRUE],
     [id |-> 5, name |-> "Gourmet Cheese Platter", description |-> "Selection of three fine cheeses.",
      price |-> 3000, imageUrl |-> "https://picsum.photos/seed/cheeseplatter/200/200",
      barcode |-> "1234567890127", quantityType |-> "unit", stock |-> 20, isVisible |-> TRUE],
     [id |-> 6, name |-> "Sparkling Water (6-pack)", description |-> "Natural mineral water.",
      price |-> 875, imageUrl |-> "https://picsum.photos/seed/sparklingwater/200/200",
      barcode |-> "1234567890128", quantityType |-> "unit", stock |-> 150, isVisible |-> TRUE] >>

DEFAULT_IMAGE == "https://picsum.photos/seed/defaultproduct/200/200"

\* ------------------------------------------------------------ input sets
SeedIds == 1..Len(INITIAL_PRODUCTS)
GenIds == (Len(INITIAL_PRODUCTS) + 1)..(Len(INITIAL_PRODUCTS) + MaxGen)
OrderIds == 1..MaxOrders
SessionIds == 1..MaxSessions
Emails == {ADMIN_EMAIL, "a@b.com"}
StoreNames == {"Acme Dairy"}
Stocks == 0..MaxStock

\* ----------------------------------------------------------------- state
VARIABLES
  dbProducts,         \* backing store, table products (rows in table order)
  dbOrders,           \* backing store, table orders
  dbSessions,         \* backing store, table sessions
  lsSessionId,        \* localStorage['supabaseSessionId']: <<>> or <<id>>
  userSession,        \* useState userSession: <<>> or <<[email, storeName]>>
  isAdmin,            \* useState isAdmin
  orders,             \* useState orders
  products,           \* useState products
  isLoading,          \* useState isLoading
  currentOrderItems,  \* MainScreen useState currentOrderItems (the cart)
  now,                \* the wall clock read by Date.now() / new Date()
  showAdminOrderNotification,  \* useState showAdminOrderNotification
  lsLastView,         \* localStorage['adminLastDashboardViewTimestamp']: <<>> or <<time>>
  sinceView,          \* history: <<>>, or <<ids of the orders created since the last dashboard view>>
  last,               \* history: the operation that produced this state
  deducted,           \* history: <<order id, product id>> of every stock update that was applied
  hasSeeded,          \* history: some load has inserted the default catalog
  inFlight,           \* the operations that were started and have not returned yet
  remote              \* a second administrator device: <<>> or <<[orders, products]>>, its caches

vars == <<dbProducts, dbOrders, dbSessions, lsSessionId, userSession, isAdmin,
          orders, products, isLoading, currentOrderItems, now,
          showAdminOrderNotification, lsLastView, sinceView, last, deducted,
          hasSeeded, inFlight, remote>>

\* --------------------------------------------------------------- helpers
Max(a, b) == IF a >= b THEN a ELSE b

Has(r, f) == f \in DOMAIN r

\* { ...base, ...patch }
Spread(base, patch) ==
  [f \in (DOMAIN base) \cup (DOMAIN patch) |->
      IF f \in DOMAIN patch THEN patch[f] ELSE base[f]]

\* array.map(fn)
MapSeq(s, F(_)) == [i \in 1..Len(s) |-> F(s[i])]

\* array.filter(pred)
FilterSeq(s, P(_)) == SelectSeq(s, P)

\* array.find(x => x.id === id): <<>> when there is none, else <<first match>>
Find(s, id) ==
  IF \E i \in 1..Len(s) : s[i].id = id
  THEN <<s[CHOOSE i \in 1..Len(s) : s[i].id = id /\ \A j \in 1..(i - 1) : s[j].id # id]>>
  ELSE <<>>

Ids(s) == {s[i].id : i \in 1..Len(s)}

\* p => ({...p, isVisible: p.isVisible === undefined || null ? true : p.isVisible})
WithVisible(p) == IF Has(p, "isVisible") THEN p ELSE Spread(p, [isVisible |-> TRUE])

SeedProducts == MapSeq(INITIAL_PRODUCTS, WithVisible)

\* smallest id of pool that is not in used: stands for a freshly generated
\* uuidv4() / `prod_${Date.now()}_${random}` / `order_${Date.now()}_${random}`
HasFresh(pool, used) == pool \ used # {}

FreshId(pool, used) == CHOOSE i \in pool \ used : \A j \in pool \ used : i <= j

OrderProductIds(os) == UNION {{os[i].items[k].productId : k \in 1..Len(os[i].items)} : i \in 1..Len(os)}

\* product ids some row, cached product, cart line or order line refers to
UsedProductIds ==
  Ids(dbProducts) \cup Ids(products) \cup {currentOrderItems[i].productId : i \in 1..Len(currentOrderItems)}
    \cup OrderProductIds(dbOrders) \cup OrderProductIds(orders)

\* variant: the comparison ignores the case of the letters (of the emails
\* the model logs in with, these two are the administrator's up to case)
IsAdminEmailAnyCase(email) == email \in {ADMIN_EMAIL, "Admin@laiterie.com"}

\* email === ADMIN_EMAIL
IsAdminEmail(email) == email = ADMIN_EMAIL

\* variant: the stored timestamp is not looked at
CheckAdminNotificationAnyPending(admin, os, lastViewTimestamp) ==
  admin /\ \E i \in 1..Len(os) : os[i].status = PENDING

\* checkAdminNotification(): the value it hands to
\* setShowAdminOrderNotification for the given isAdmin, orders and stored
\* timestamp
CheckAdminNotification(admin, os, lastViewTimestamp) ==
  IF admin
  THEN \E i \in 1..Len(os) :
         /\ os[i].status = PENDING
         /\ (lastViewTimestamp = <<>> \/ os[i].orderDate > lastViewTimestamp[1])
  ELSE FALSE

\* the effect that follows setOrders / setIsAdmin: the flag is recomputed
\* from the new isAdmin and orders
Recheck == showAdminOrderNotification' = CheckAdminNotification(isAdmin', orders', lsLastView)

\* history: which of the catalog, the ledger and their tables the step left
\* as they were
Frame ==
  [orders |-> orders' = orders, products |-> products' = products,
   dbOrders |-> dbOrders' = dbOrders, dbProducts |-> dbProducts' = dbProducts,
   deducted |-> deducted' = deducted]

\* ------------------------------------------------------------------ Init
\* useState initial values, an empty backing store and an empty localStorage
Init ==
  /\ dbProducts = <<>>
  /\ dbOrders = <<>>
  /\ dbSessions = {}
  /\ lsSessionId = <<>>
  /\ userSession = <<>>
  /\ isAdmin = FALSE
  /\ orders = <<>>
  /\ products = <<>>
  /\ isLoading = TRUE
  /\ currentOrderItems = <<>>
  /\ now = 1
  /\ showAdminOrderNotification = FALSE
  /\ lsLastView = <<>>
  /\ sinceView = <<>>
  /\ last = [op |-> "init"]
  /\ deducted = {}
  /\ hasSeeded = FALSE
  /\ inFlight = {}
  /\ remote = <<>>

\* ---------------------------------------------------------- fetchAllData
\* variant: a failed lookup leaves the local session key in place
FetchSessionKeepKey(currentSessionId, sessions, ls, lookupOk) ==
  IF currentSessionId # <<>> /\ lookupOk /\ (\E r \in sessions : r.id = currentSessionId[1])
  THEN LET sessionData == CHOOSE r \in sessions : r.id = currentSessionId[1]
       IN [ls |-> ls,
           userSession |-> <<[email |-> sessionData.email, storeName |-> sessionData.store_name]>>,
           isAdmin |-> IsAdminEmail(sessionData.email),
           valid |-> TRUE]
  ELSE [ls |-> ls, userSession |-> <<>>, isAdmin |-> FALSE, valid |-> FALSE]

\* session part: the lookup of currentSessionId in table sessions
FetchSession(currentSessionId, sessions, ls, lookupOk) ==
  IF currentSessionId = <<>>
  THEN [ls |-> ls, userSession |-> <<>>, isAdmin |-> FALSE, valid |-> FALSE]
  ELSE IF ~lookupOk \/ ~(\E r \in sessions : r.id = currentSessionId[1])
  THEN [ls |-> <<>>, userSession |-> <<>>, isAdmin |-> FALSE, valid |-> FALSE]
  ELSE LET sessionData == CHOOSE r \in sessions : r.id = currentSessionId[1]
       IN [ls |-> ls,
           userSession |-> <<[email |-> sessionData.email, storeName |-> sessionData.store_name]>>,
           isAdmin |-> IsAdminEmail(sessionData.email),
           valid |-> TRUE]

\* variant: an empty table is not seeded, the cache alone gets the defaults
FetchProductsCacheOnly(fetchOk, seedOk) ==
  IF fetchOk /\ Len(dbProducts) > 0
  THEN [db |-> dbProducts, mem |-> MapSeq(dbProducts, WithVisible), seeded |-> FALSE]
  ELSE [db |-> dbProducts, mem |-> SeedProducts, seeded |-> fetchOk /\ seedOk]

\* product part: select, seed when the table is empty, fall back to the
\* default catalog in memory when the select fails
FetchProducts(fetchOk, seedOk) ==
  IF ~fetchOk
  THEN [db |-> dbProducts, mem |-> SeedProducts, seeded |-> FALSE]
  ELSE IF Len(dbProducts) = 0
  THEN IF seedOk
       THEN [db |-> SeedProducts, mem |-> SeedProducts, seeded |-> TRUE]
       ELSE [db |-> dbProducts, mem |-> SeedProducts, seeded |-> FALSE]
  ELSE [db |-> dbProducts, mem |-> MapSeq(dbProducts, WithVisible), seeded |-> FALSE]

\* order part
FetchOrders(fetchOk) == IF fetchOk THEN dbOrders ELSE <<>>

\* the whole of fetchAllData(currentSessionId), run on the session table and
\* the local session key ls as the caller left them
FetchAllData(currentSessionId, sessions, ls, lookupOk, prodOk, seedOk, ordOk) ==
  LET s == FetchSession(currentSessionId, sessions, ls, lookupOk)
      p == FetchProducts(prodOk, seedOk)
  IN /\ lsSessionId' = s.ls
     /\ userSession' = s.userSession
     /\ isAdmin' = s.isAdmin
     /\ dbProducts' = p.db
     /\ products' = p.mem
     /\ orders' = FetchOrders(ordOk)
     /\ isLoading' = FALSE
     /\ hasSeeded' = (hasSeeded \/ p.seeded)
     /\ UNCHANGED <<dbOrders, now, deducted, lsLastView, sinceView>>
     /\ Recheck

\* useEffect(() => fetchAllData(localStorage.getItem(SESSION_STORAGE_KEY)))
Startup(lookupOk, prodOk, seedOk, ordOk) ==
  /\ UNCHANGED <<inFlight, remote>>
  /\ isLoading
  /\ dbSessions' = dbSessions
  /\ FetchAllData(lsSessionId, dbSessions, lsSessionId, lookupOk, prodOk, seedOk, ordOk)
  /\ UNCHANGED currentOrderItems
  /\ last' = [op |-> "fetchAllData", seeded |-> FetchProducts(prodOk, seedOk).seeded,
               seededBefore |-> hasSeeded,
               sessionId |-> lsSessionId,
               lookup |-> IF lsSessionId = <<>> THEN "none"
                          ELSE IF ~lookupOk THEN "error"
                          ELSE IF \E r \in dbSessions : r.id = lsSessionId[1] THEN "hit"
                          ELSE "miss"]

\* the page is reloaded: the provider is constructed again, the backing
\* store and localStorage stay
Restart ==
  /\ UNCHANGED <<hasSeeded, inFlight, remote>>
  /\ ~isLoading
  /\ userSession' = <<>>
  /\ isAdmin' = FALSE
  /\ orders' = <<>>
  /\ products' = <<>>
  /\ isLoading' = TRUE
  /\ currentOrderItems' = <<>>
  /\ showAdminOrderNotification' = FALSE
  /\ UNCHANGED <<dbProducts, dbOrders, dbSessions, lsSessionId, now, deducted, lsLastView, sinceView>>
  /\ last' = [op |-> "restart"]

\* ---------------------------------------------------------- login / logout
\* LoginScreen shows the form only while there is no session
Login(email, storeName, insertOk, lookupOk, prodOk, seedOk, ordOk) ==
  /\ UNCHANGED <<inFlight, remote>>
  /\ ~isLoading
  /\ userSession = <<>>
  /\ HasFresh(SessionIds, {r.id : r \in dbSessions} \cup {lsSessionId[i] : i \in 1..Len(lsSessionId)})
  /\ LET sessionId == FreshId(SessionIds, {r.id : r \in dbSessions} \cup {lsSessionId[i] : i \in 1..Len(lsSessionId)})
     IN IF ~insertOk
        THEN UNCHANGED <<dbProducts, dbOrders, dbSessions, lsSessionId, userSession, isAdmin,
                         orders, products, isLoading, now, deducted, hasSeeded,
                         showAdminOrderNotification, lsLastView, sinceView>>
        ELSE /\ dbSessions' = dbSessions \cup {[id |-> sessionId, email |-> email, store_name |-> storeName]}
             /\ FetchAllData(<<sessionId>>, dbSessions', <<sessionId>>, lookupOk, prodOk, seedOk, ordOk)
  /\ UNCHANGED currentOrderItems
  /\ last' = [op |-> "login", ok |-> insertOk, seededBefore |-> hasSeeded,
               seeded |-> (insertOk /\ FetchProducts(prodOk, seedOk).seeded)]

\* variant: the session row is never deleted
SessionsAfterDeleteKeep(sessions, sessionId, deleteOk) == sessions

\* if (sessionId) supabase.from('sessions').delete().eq('id', sessionId)
SessionsAfterDelete(sessions, sessionId, deleteOk) ==
  IF sessionId # <<>> /\ deleteOk
  THEN {r \in sessions : r.id # sessionId[1]}
  ELSE sessions

\* the session row is deleted when the local key is present; MainScreen
\* navigates away when userSession becomes null, which drops the cart
Logout(deleteOk) ==
  /\ UNCHANGED <<hasSeeded, inFlight, remote>>
  /\ ~isLoading
  /\ userSession # <<>>
  /\ dbSessions' = SessionsAfterDelete(dbSessions, lsSessionId, deleteOk)
  /\ lsSessionId' = <<>>
  /\ userSession' = <<>>
  /\ isAdmin' = FALSE
  /\ orders' = <<>>
  /\ isLoading' = FALSE
  /\ currentOrderItems' = <<>>
  /\ UNCHANGED <<dbProducts, dbOrders, products, now, deducted, lsLastView, sinceView>>
  /\ Recheck
  /\ last' = [op |-> "logout", sessionId |-> lsSessionId,
               deleted |-> (lsSessionId # <<>> /\ deleteOk)]

\* ------------------------------------------------------------------- cart
\* products a store owner puts into the cart
CartIds == GenIds

\* handleAddToCart(product, quantity): a line of the same product is merged
HandleAddToCart(productId, quantity) ==
  /\ UNCHANGED <<hasSeeded, inFlight, remote>>
  /\ ~isLoading
  /\ userSession # <<>>
  /\ ~isAdmin
  /\ Find(products, productId) # <<>>
  /\ Find(products, productId)[1].isVisible # FALSE
  /\ LET existingItem == {i \in 1..Len(currentOrderItems) : currentOrderItems[i].productId = productId}
     IN IF existingItem # {}
        THEN /\ \A i \in existingItem : currentOrderItems[i].quantity + quantity <= MaxQty
             /\ currentOrderItems' =
                  MapSeq(currentOrderItems,
                         LAMBDA it : IF it.productId = productId
                                     THEN [it EXCEPT !.quantity = it.quantity + quantity]
                                     ELSE it)
        ELSE currentOrderItems' = Append(currentOrderItems, [productId |-> productId, quantity |-> quantity])
  /\ UNCHANGED <<dbProducts, dbOrders, dbSessions, lsSessionId, userSession, isAdmin,
                 orders, products, isLoading, now, deducted,
                 showAdminOrderNotification, lsLastView, sinceView>>
  /\ last' = [op |-> "handleAddToCart"]

\* ------------------------------------------------------------- addOrder
\* variant: the order is appended before the error is looked at
OrdersAfterInsertAlways(prevOrders, data, insertOk) == Append(prevOrders, data)

\* if (error) return null; if (data) setOrders(prev => [...prev, data])
OrdersAfterInsert(prevOrders, data, insertOk) ==
  IF insertOk THEN Append(prevOrders, data) ELSE prevOrders

\* variant: the order is created as Delivered
FullOrderDelivered(newOrderData, orderId, orderDate) ==
  Spread(newOrderData, [id |-> orderId, orderDate |-> orderDate, status |-> DELIVERED])

\* { ...newOrderData, id: orderId, orderDate: new Date().toISOString(),
\*   status: OrderStatus.PENDING }
FullOrder(newOrderData, orderId, orderDate) ==
  Spread(newOrderData, [id |-> orderId, orderDate |-> orderDate, status |-> PENDING])

\* handleSubmitOrder -> addOrder({storeName, userEmail, items}); the cart is
\* emptied when addOrder returned an order
\* of ids: the ids the generator of `order_${Date.now()}_${random}` draws from
AddOrder(ids, insertOk) ==
  /\ UNCHANGED <<hasSeeded, inFlight, remote>>
  /\ ~isLoading
  /\ userSession # <<>>
  /\ ~isAdmin
  /\ currentOrderItems # <<>>
  /\ HasFresh(ids, Ids(dbOrders) \cup Ids(orders))
  /\ LET newOrderData == [storeName |-> userSession[1].storeName,
                          userEmail |-> userSession[1].email,
                          items |-> currentOrderItems]
         fullOrder == FullOrder(newOrderData, FreshId(ids, Ids(dbOrders) \cup Ids(orders)), now)
     IN /\ dbOrders' = IF insertOk THEN Append(dbOrders, fullOrder) ELSE dbOrders
        /\ orders' = OrdersAfterInsert(orders, fullOrder, insertOk)
        /\ currentOrderItems' = IF insertOk THEN <<>> ELSE currentOrderItems
        /\ now' = IF insertOk THEN now + 1 ELSE now
        /\ isLoading' = FALSE
        /\ UNCHANGED <<dbProducts, dbSessions, lsSessionId, userSession, isAdmin, products, deducted,
                       lsLastView>>
        /\ IF insertOk THEN Recheck ELSE UNCHANGED showAdminOrderNotification
        /\ sinceView' = IF insertOk /\ sinceView # <<>>
                        THEN <<sinceView[1] \cup {fullOrder.id}>> ELSE sinceView
        /\ last' = [op |-> "addOrder", ok |-> insertOk, newOrderData |-> newOrderData,
                     result |-> IF insertOk THEN <<fullOrder>> ELSE <<>>, same |-> Frame]

\* ----------------------------------------------------- updateOrderStatus
Outcomes == {"ok", "error", "reject"}

\* variant: the quantity is not subtracted
NewStockKeep(stock, quantity) == Max(0, stock)

\* variant: the result is not floored at zero
NewStockNoFloor(stock, quantity) == stock - quantity

\* Math.max(0, product.stock - item.quantity)
NewStock(stock, quantity) == Max(0, stock - quantity)

\* the for loop over orderToUpdate.items: one entry per item whose product
\* is in the cached catalog with a numeric stock
StockPlan(items, prods) ==
  MapSeq(SelectSeq(items, LAMBDA it : /\ Find(prods, it.productId) # <<>>
                                      /\ Has(Find(prods, it.productId)[1], "stock")),
         LAMBDA it : LET product == Find(prods, it.productId)[1]
                     IN [id |-> product.id,
                         newStock |-> NewStock(product.stock, it.quantity),
                         local |-> Spread(product, [stock |-> NewStock(product.stock, it.quantity)])])

\* variant: the updates are applied together or not at all
ApplyStockUpdatesAllOrNothing(db, plan, outcomes) ==
  IF \E i \in 1..Len(outcomes) : outcomes[i] # "ok"
  THEN db
  ELSE MapSeq(db, LAMBDA p : IF \E i \in 1..Len(plan) : plan[i].id = p.id
                             THEN Spread(p, [stock |-> plan[CHOOSE i \in 1..Len(plan) : plan[i].id = p.id].newStock])
                             ELSE p)

\* supabase.from('products').update({stock}).eq('id', id), one per plan
\* entry.  outcomes[i] is what the i-th call does: "ok" writes the row,
\* "error" resolves with an error, "reject" rejects the promise; a call that
\* failed leaves its row alone
RECURSIVE ApplyStockUpdates(_, _, _)
ApplyStockUpdates(db, plan, outcomes) ==
  IF plan = <<>> THEN db
  ELSE LET u == Head(plan)
           db1 == IF Head(outcomes) = "ok"
                  THEN MapSeq(db, LAMBDA p : IF p.id = u.id THEN Spread(p, [stock |-> u.newStock]) ELSE p)
                  ELSE db
       IN ApplyStockUpdates(db1, Tail(plan), Tail(outcomes))

\* await Promise.all(productUpdates); setProducts(prev => prev.map(p =>
\* updatedProductsLocally.find(up => up.id === p.id) || p)): skipped when a
\* call rejected
ApplyLocally(prods, plan, outcomes) ==
  IF \E i \in 1..Len(outcomes) : outcomes[i] = "reject"
  THEN prods
  ELSE MapSeq(prods, LAMBDA p : IF Find(plan, p.id) # <<>> THEN Find(plan, p.id)[1].local ELSE p)

\* variant: the status is written onto every order
SetStatusAll(os, orderId, newStatus) ==
  MapSeq(os, LAMBDA o : Spread(o, [status |-> newStatus]))

SetStatus(os, orderId, newStatus) ==
  MapSeq(os, LAMBDA o : IF o.id = orderId THEN [o EXCEPT !.status = newStatus] ELSE o)

\* variant: the order is looked up in table orders
OrderLookupDb(os, orderId) == Find(dbOrders, orderId)

\* orders.find(o => o.id === orderId): the lookup is in the cached list
OrderLookup(os, orderId) == Find(os, orderId)

\* variant: the old status is not looked at
ShouldReconcileAnyOld(oldStatus, newStatus) == newStatus = DELIVERED

\* variant: any move away from a non-Delivered status touches the stock
ShouldReconcileAnyNew(oldStatus, newStatus) == oldStatus # DELIVERED

\* newStatus === DELIVERED && oldStatus !== DELIVERED
ShouldReconcile(oldStatus, newStatus) == newStatus = DELIVERED /\ oldStatus # DELIVERED

\* history: what the cache held for each item of the order before the step
ItemFacts(items, prods) ==
  MapSeq(items, LAMBDA it :
    [id |-> it.productId, quantity |-> it.quantity,
     stock |-> IF Find(prods, it.productId) # <<>> /\ Has(Find(prods, it.productId)[1], "stock")
               THEN <<Find(prods, it.productId)[1].stock>> ELSE <<>>])

UpdateOrderStatus(orderId, newStatus, statusOk) ==
  /\ UNCHANGED <<hasSeeded, inFlight, remote>>
  /\ ~isLoading
  /\ isAdmin
  /\ isLoading' = FALSE
  /\ UNCHANGED <<dbSessions, lsSessionId, userSession, isAdmin, currentOrderItems, now,
                 lsLastView, sinceView>>
  /\ LET orderToUpdate == OrderLookup(orders, orderId)
     IN IF orderToUpdate = <<>>
        THEN /\ UNCHANGED <<dbOrders, orders, dbProducts, products, deducted, showAdminOrderNotification>>
             /\ last' = [op |-> "updateOrderStatus", orderId |-> orderId,
                          cached |-> Find(orders, orderId) # <<>>, found |-> FALSE, same |-> Frame]
        ELSE IF ~statusOk
        THEN /\ UNCHANGED <<dbOrders, orders, dbProducts, products, deducted, showAdminOrderNotification>>
             /\ last' = [op |-> "updateOrderStatus", orderId |-> orderId,
                          cached |-> Find(orders, orderId) # <<>>, found |-> TRUE, ok |-> FALSE,
                          same |-> Frame]
        ELSE /\ dbOrders' = SetStatus(dbOrders, orderId, newStatus)
             /\ orders' = SetStatus(orders, orderId, newStatus)
             /\ Recheck
             /\ IF ShouldReconcile(orderToUpdate[1].status, newStatus)
                THEN LET plan == StockPlan(orderToUpdate[1].items, products)
                     IN \E outcomes \in [1..Len(plan) -> Outcomes] :
                        LET applied == {<<orderId, plan[i].id>> : i \in {j \in 1..Len(plan) : outcomes[j] = "ok"}}
                        IN /\ dbProducts' = ApplyStockUpdates(dbProducts, plan, outcomes)
                           /\ products' = ApplyLocally(products, plan, outcomes)
                           /\ deducted' = deducted \cup applied
                           /\ last' = [op |-> "updateOrderStatus", orderId |-> orderId,
                                        cached |-> Find(orders, orderId) # <<>>, found |-> TRUE,
                                        ok |-> TRUE, newStatus |-> newStatus,
                                        wasDelivered |-> (orderToUpdate[1].status = DELIVERED),
                                        reconciled |-> TRUE,
                                        again |-> (applied \cap deducted # {}),
                                        items |-> ItemFacts(orderToUpdate[1].items, products),
                                        outcomes |-> [i \in 1..Len(plan) |-> [id |-> plan[i].id, outcome |-> outcomes[i]]],
                                        same |-> Frame]
                ELSE /\ UNCHANGED <<dbProducts, products, deducted>>
                     /\ last' = [op |-> "updateOrderStatus", orderId |-> orderId,
                                  cached |-> Find(orders, orderId) # <<>>, found |-> TRUE,
                                  ok |-> TRUE, newStatus |-> newStatus,
                                  wasDelivered |-> (orderToUpdate[1].status = DELIVERED),
                                  reconciled |-> FALSE, again |-> FALSE,
                                  items |-> <<>>, outcomes |-> <<>>, same |-> Frame]

\* ------------------------------------------------------------ product CRUD

\* the product data an administrator submits: stock and isVisible may be
\* left out (Product.stock and Product.isVisible are optional)
BaseProductData ==
  [name |-> "Milk", description |-> "", price |-> 350, imageUrl |-> "https://img/milk",
   barcode |-> "", quantityType |-> "unit"]

ProductInputs ==
  {BaseProductData} \cup {Spread(BaseProductData, [stock |-> st]) : st \in Stocks}

\* partial updates of the stock
StockPatches == {[stock |-> st] : st \in Stocks}

\* the product the administrator edits or deletes in the catalog screens
TouchIds == {1}

\* products.find(p => p.id === productId)
GetProductById(productId) == Find(products, productId)

\* variant: a product that does not say whether it is visible is hidden
NewProductHidden(productData, id) ==
  Spread(productData,
         [id |-> id,
          isVisible |-> IF Has(productData, "isVisible") THEN productData.isVisible ELSE FALSE])

\* { ...productData, id: `prod_${Date.now()}_${random}`,
\*   isVisible: productData.isVisible === undefined ? true : productData.isVisible }
NewProduct(productData, id) ==
  Spread(productData,
         [id |-> id,
          isVisible |-> IF Has(productData, "isVisible") THEN productData.isVisible ELSE TRUE])

AddProduct(productData, insertOk) ==
  /\ UNCHANGED <<hasSeeded, inFlight, remote>>
  /\ ~isLoading
  /\ isAdmin
  /\ HasFresh(GenIds, UsedProductIds)
  /\ LET newProduct == NewProduct(productData, FreshId(GenIds, UsedProductIds))
         inserted == insertOk /\ newProduct.id \notin Ids(dbProducts)
     IN /\ dbProducts' = IF inserted THEN Append(dbProducts, newProduct) ELSE dbProducts
        /\ products' = IF inserted THEN Append(products, WithVisible(newProduct)) ELSE products
        /\ isLoading' = FALSE
        /\ UNCHANGED <<dbOrders, dbSessions, lsSessionId, userSession, isAdmin, orders,
                       currentOrderItems, now, deducted,
                       showAdminOrderNotification, lsLastView, sinceView>>
        /\ last' = [op |-> "addProduct", ok |-> inserted, productData |-> productData,
                     result |-> IF inserted THEN <<WithVisible(newProduct)>> ELSE <<>>, same |-> Frame]

\* variant: the updated record is appended instead of replacing the old one
ReplaceByIdAppend(prods, productId, data) == Append(prods, data)

\* prevProducts.map(p => p.id === productId ? data : p)
ReplaceById(prods, productId, data) ==
  MapSeq(prods, LAMBDA p : IF p.id = productId THEN data ELSE p)

\* variant: the update clears the stock of the row
UpdatedRowStockReset(row, productToUpdate) == Spread(Spread(row, [stock |-> 0]), productToUpdate)

\* update(productToUpdate).eq('id', productId): the columns named in
\* productToUpdate are written, the others stay
UpdatedRow(row, productToUpdate) == Spread(row, productToUpdate)

\* update(...).eq('id', productId).select().single() reports an error when no
\* row has that id
UpdateProduct(productId, updatedProductData, updateOk) ==
  /\ UNCHANGED <<hasSeeded, inFlight, remote>>
  /\ ~isLoading
  /\ isAdmin
  /\ LET updated == updateOk /\ Find(dbProducts, productId) # <<>>
         data == UpdatedRow(Find(dbProducts, productId)[1], updatedProductData)
     IN /\ dbProducts' = IF updated THEN ReplaceById(dbProducts, productId, data) ELSE dbProducts
        /\ products' = IF updated THEN ReplaceById(products, productId, WithVisible(data)) ELSE products
        /\ isLoading' = FALSE
        /\ UNCHANGED <<dbOrders, dbSessions, lsSessionId, userSession, isAdmin, orders,
                       currentOrderItems, now, deducted,
                       showAdminOrderNotification, lsLastView, sinceView>>
        /\ last' = [op |-> "updateProduct", ok |-> updated, productId |-> productId,
                     updatedProductData |-> updatedProductData, same |-> Frame]

\* variant: when no product has the id, the first product is removed
RemoveByIdOrFirst(prods, productId) ==
  IF productId \in Ids(prods) \/ prods = <<>>
  THEN SelectSeq(prods, LAMBDA p : p.id # productId)
  ELSE Tail(prods)

\* delete().eq('id', productId) / prevProducts.filter(p => p.id !== productId)
RemoveById(prods, productId) == SelectSeq(prods, LAMBDA p : p.id # productId)

DeleteProduct(productId, deleteOk) ==
  /\ UNCHANGED <<hasSeeded, inFlight, remote>>
  /\ ~isLoading
  /\ isAdmin
  /\ dbProducts' = IF deleteOk THEN RemoveById(dbProducts, productId) ELSE dbProducts
  /\ products' = IF deleteOk THEN RemoveById(products, productId) ELSE products
  /\ isLoading' = FALSE
  /\ UNCHANGED <<dbOrders, dbSessions, lsSessionId, userSession, isAdmin, orders,
                 currentOrderItems, now, deducted,
                 showAdminOrderNotification, lsLastView, sinceView>>
  /\ last' = [op |-> "deleteProduct", ok |-> deleteOk, productId |-> productId, same |-> Frame]

\* ------------------------------------------------------- bulkAddProducts
\* rows handed to bulkAddProducts: one with the id of a default product, one
\* with an id of its own, one without id; each leaves fields unset

BulkRows ==
  {[id |-> 1, stock |-> 1],
   [id |-> Len(INITIAL_PRODUCTS) + 1, name |-> "Milk"],
   [name |-> "Milk", stock |-> 1]}

BulkInputs == UNION {[1..n -> BulkRows] : n \in 1..MaxRows}

\* x || d for a string field: undefined and '' give d
OrDefault(row, f, d) == IF Has(row, f) /\ row[f] # "" THEN row[f] ELSE d

\* Number(x ?? 0) for a numeric field
NumOrZero(row, f) == IF Has(row, f) THEN row[f] ELSE 0

\* the finalProduct built for one row; freshId is the generated id
FinalProduct(pToAdd, freshId) ==
  [id |-> IF Has(pToAdd, "id") THEN pToAdd.id ELSE freshId,
   name |-> OrDefault(pToAdd, "name", "Unnamed Product"),
   description |-> OrDefault(pToAdd, "description", ""),
   price |-> NumOrZero(pToAdd, "price"),
   imageUrl |-> OrDefault(pToAdd, "imageUrl", DEFAULT_IMAGE),
   barcode |-> OrDefault(pToAdd, "barcode", ""),
   quantityType |-> OrDefault(pToAdd, "quantityType", "unit"),
   stock |-> NumOrZero(pToAdd, "stock"),
   isVisible |-> IF Has(pToAdd, "isVisible") THEN pToAdd.isVisible ELSE TRUE]

\* productsToAdd.map(...): every row without an id draws its own fresh id
RECURSIVE ProductsToUpsert(_, _)
ProductsToUpsert(rows, used) ==
  IF rows = <<>> THEN <<>>
  ELSE IF Has(Head(rows), "id")
  THEN <<FinalProduct(Head(rows), 0)>> \o ProductsToUpsert(Tail(rows), used)
  ELSE LET f == FreshId(GenIds, used)
       IN <<FinalProduct(Head(rows), f)>> \o ProductsToUpsert(Tail(rows), used \cup {f})

\* variant: every row is inserted
UpsertInsertOnly(db, rows) == db \o rows

\* upsert(rows, {onConflict: 'id'}): a row whose id is in the table replaces
\* that row, any other row is inserted
RECURSIVE Upsert(_, _)
Upsert(db, rows) ==
  IF rows = <<>> THEN db
  ELSE LET r == Head(rows)
       IN Upsert(IF r.id \in Ids(db)
                 THEN MapSeq(db, LAMBDA p : IF p.id = r.id THEN r ELSE p)
                 ELSE Append(db, r),
                 Tail(rows))

\* one statement may not touch a row twice: the store rejects a batch that
\* carries an id twice
DistinctIds(rows) == Cardinality(Ids(rows)) = Len(rows)

\* variant: the cache is left as it is
RefetchedKeep(db, mem, fetchOk) == mem

\* select('*') after the upsert: the rows of the table replace the cache
\* unless the select fails
Refetched(db, mem, fetchOk) == IF fetchOk THEN MapSeq(db, WithVisible) ELSE mem

BulkAddProducts(productsToAdd, upsertOk, fetchOk) ==
  /\ UNCHANGED <<hasSeeded, inFlight, remote>>
  /\ ~isLoading
  /\ isAdmin
  /\ Cardinality(GenIds \ UsedProductIds) >=
        Cardinality({i \in 1..Len(productsToAdd) : ~Has(productsToAdd[i], "id")})
  /\ LET productsToUpsert == ProductsToUpsert(productsToAdd, UsedProductIds)
         upserted == upsertOk /\ DistinctIds(productsToUpsert)
     IN /\ dbProducts' = IF upserted THEN Upsert(dbProducts, productsToUpsert) ELSE dbProducts
        /\ products' = Refetched(dbProducts', products, fetchOk)
        /\ isLoading' = FALSE
        /\ UNCHANGED <<dbOrders, dbSessions, lsSessionId, userSession, isAdmin, orders,
                       currentOrderItems, now, deducted,
                       showAdminOrderNotification, lsLastView, sinceView>>
        /\ last' = [op |-> "bulkAddProducts", ok |-> upserted, fetched |-> fetchOk,
                     productsToAdd |-> productsToAdd,
                     existing |-> [i \in 1..Len(productsToAdd) |->
                                     IF Has(productsToAdd[i], "id")
                                     THEN Find(dbProducts, productsToAdd[i].id) ELSE <<>>],
                     repeated |-> (/\ last.op = "bulkAddProducts" /\ last.ok /\ last.fetched
                                   /\ last.productsToAdd = productsToAdd),
                     same |-> Frame]

\* ------------------------------------------------- CSV export and import
\* A JavaScript string is the sequence of its pieces: a piece is " " or a run
\* of characters that neither begins nor ends with white space; digits, "-",
\* "+" and "." are pieces of their own.  Str joins the pieces.
RECURSIVE Str(_)
Str(cs) == IF cs = <<>> THEN "" ELSE Head(cs) \o Str(Tail(cs))

\* the pieces of a catalog text (catalog texts carry no outer white space)
Pieces(v) == IF v = "" THEN <<>> ELSE <<v>>

IsSpace(c) == c = " "

RECURSIVE TrimStart(_)
TrimStart(cs) == IF cs # <<>> /\ IsSpace(Head(cs)) THEN TrimStart(Tail(cs)) ELSE cs

RECURSIVE TrimEnd(_)
TrimEnd(cs) ==
  IF cs # <<>> /\ IsSpace(cs[Len(cs)]) THEN TrimEnd(SubSeq(cs, 1, Len(cs) - 1)) ELSE cs

\* String.prototype.trim
Trim(cs) == TrimEnd(TrimStart(cs))

DigitChars == <<"0", "1", "2", "3", "4", "5", "6", "7", "8", "9">>

IsDigit(c) == \E d \in DOMAIN DigitChars : DigitChars[d] = c

DigitValue(c) == (CHOOSE d \in DOMAIN DigitChars : DigitChars[d] = c) - 1

\* String(n) for a natural number n
RECURSIVE NatString(_)
NatString(n) ==
  IF n < Len(DigitChars) THEN <<DigitChars[n + 1]>>
  ELSE NatString(n \div Len(DigitChars)) \o <<DigitChars[(n % Len(DigitChars)) + 1]>>

Abs(n) == IF n < 0 THEN -n ELSE n

\* String(stock): the decimal digits of an integer
IntString(n) == (IF n < 0 THEN <<"-">> ELSE <<>>) \o NatString(Abs(n))

\* String(price): a price of c hundredths, written without trailing zeros
PriceString(c) ==
  LET whole == Abs(c) \div 100
      tenths == (Abs(c) % 100) \div 10
      hundredths == Abs(c) % 10
  IN (IF c < 0 THEN <<"-">> ELSE <<>>) \o NatString(whole)
       \o (IF Abs(c) % 100 = 0 THEN <<>>
           ELSE <<".", DigitChars[tenths + 1]>>
                  \o (IF hundredths = 0 THEN <<>> ELSE <<DigitChars[hundredths + 1]>>))

\* `prod_n`, the id the model writes n
IdString(n) == <<"prod_">> \o NatString(n)

\* the model's number of an id string (the files of the model carry ids of the pools only)
IdOf(cs) == CHOOSE n \in SeedIds \cup GenIds : IdString(n) = cs

\* the longest prefix of digits
RECURSIVE LeadingDigits(_)
LeadingDigits(cs) ==
  IF cs # <<>> /\ IsDigit(Head(cs)) THEN <<Head(cs)>> \o LeadingDigits(Tail(cs)) ELSE <<>>

RECURSIVE DigitsValue(_)
DigitsValue(ds) ==
  IF ds = <<>> THEN 0
  ELSE Len(DigitChars) * DigitsValue(SubSeq(ds, 1, Len(ds) - 1)) + DigitValue(ds[Len(ds)])

Sign(cs) == IF cs # <<>> /\ Head(cs) = "-" THEN -1 ELSE 1

Unsigned(cs) == IF cs # <<>> /\ Head(cs) \in {"-", "+"} THEN Tail(cs) ELSE cs

\* parseInt(s, 10): <<>> for NaN, else <<n>>; white space, a sign, then the
\* digits up to the first other character
ParseInt(cs) ==
  LET s == TrimStart(cs)
      ds == LeadingDigits(Unsigned(s))
  IN IF ds = <<>> THEN <<>> ELSE <<Sign(s) * DigitsValue(ds)>>

\* parseFloat(s): <<>> for NaN, else <<hundredths>>; white space, a sign,
\* digits, and a "." with digits, up to the first other character (the cells
\* of the model carry at most two decimals)
ParseFloat(cs) ==
  LET s == TrimStart(cs)
      body == Unsigned(s)
      whole == LeadingDigits(body)
      rest == SubSeq(body, Len(whole) + 1, Len(body))
      decimals == IF rest # <<>> /\ Head(rest) = "." THEN LeadingDigits(Tail(rest)) ELSE <<>>
      hundredths == DigitsValue(SubSeq(decimals \o <<"0", "0">>, 1, 2))
  IN IF whole = <<>> /\ decimals = <<>> THEN <<>>
     ELSE <<Sign(s) * (100 * DigitsValue(whole) + hundredths)>>

\* String.prototype.toLowerCase on the words the import compares
ToLowerCase(s) ==
  CASE s \in {"KG", "Kg", "kG"} -> "kg"
    [] s \in {"TRUE", "True"} -> "true"
    [] s \in {"FALSE", "False"} -> "false"
    [] OTHER -> s

ExportColumns ==
  <<"id", "name", "description", "price", "imageUrl", "barcode", "quantityType", "stock", "isVisible">>

\* one object of dataToExport, every value as Papa.unparse writes it
DataToExport(p) ==
  [id |-> IdString(p.id),
   name |-> Pieces(p.name),
   description |-> IF Has(p, "description") THEN Pieces(p.description) ELSE <<>>,
   price |-> IF Has(p, "price") THEN PriceString(p.price) ELSE <<>>,
   imageUrl |-> Pieces(p.imageUrl),
   barcode |-> IF Has(p, "barcode") THEN Pieces(p.barcode) ELSE <<>>,
   quantityType |-> IF Has(p, "quantityType") /\ p.quantityType # "" THEN Pieces(p.quantityType)
                    ELSE <<"unit">>,
   stock |-> IF Has(p, "stock") THEN IntString(p.stock) ELSE <<>>,
   isVisible |-> IF Has(p, "isVisible") /\ ~p.isVisible THEN <<"false">> ELSE <<"true">>]

\* exportToCsv(data, filename): Papa.unparse(data, {header: !!headers, columns: headers})
\* with headers undefined, so header is false and no header line is written;
\* a file is the sequence of its lines, a line the sequence of its cells
ExportToCsv(data) ==
  [i \in 1..Len(data) |-> [k \in 1..Len(ExportColumns) |-> data[i][ExportColumns[k]]]]

\* skipEmptyLines: true drops the lines that hold nothing at all
EmptyLine(line) == line = <<>> \/ line = << <<>> >>

\* Papa.parse(file, {header: true, skipEmptyLines: true}): the first line
\* names the fields of the objects made of the lines that follow
ParseCsv(file) ==
  LET lines == SelectSeq(file, LAMBDA l : ~EmptyLine(l))
      header == IF lines = <<>> THEN <<>> ELSE [k \in 1..Len(lines[1]) |-> Str(lines[1][k])]
      Width(l) == IF Len(l) < Len(header) THEN Len(l) ELSE Len(header)
      At(l, h) == CHOOSE k \in 1..Width(l) :
                    header[k] = h /\ \A j \in (k + 1)..Width(l) : header[j] # h
  IN [i \in 1..(Len(lines) - 1) |->
        [h \in {header[k] : k \in 1..Width(lines[i + 1])} |-> lines[i + 1][At(lines[i + 1], h)]]]

\* the object with the one field f when opt = <<value>>, with none when opt = <<>>
Defined(f, opt) == [g \in (IF opt = <<>> THEN {} ELSE {f}) |-> opt[1]]

\* row.c ? String(row.c).trim() : undefined, and then `x || undefined`
TextOf(row, c) ==
  IF Has(row, c) /\ row[c] # <<>> /\ Trim(row[c]) # <<>> THEN <<Trim(row[c])>> ELSE <<>>

\* priceString, parsedPrice, price
PriceOf(row) ==
  LET priceString == IF Has(row, "price") THEN Trim(row.price) ELSE <<>>
  IN IF priceString # <<>> THEN ParseFloat(priceString) ELSE <<>>

\* stockString, parsedStock, stock
StockOf(row) ==
  LET stockString == IF Has(row, "stock") THEN Trim(row.stock) ELSE <<>>
  IN IF stockString # <<>> THEN ParseInt(stockString) ELSE <<>>

\* rawQuantityType, finalQuantityType
QuantityTypeOf(row) ==
  LET rawQuantityType == IF Has(row, "quantityType") /\ row.quantityType # <<>>
                         THEN ToLowerCase(Str(Trim(row.quantityType))) ELSE "unit"
  IN IF rawQuantityType = "kg" THEN <<"kg">> ELSE <<"unit">>

\* isVisibleValue
IsVisibleOf(row) ==
  IF Has(row, "isVisible")
  THEN LET isVisibleString == ToLowerCase(Str(Trim(row.isVisible)))
       IN IF isVisibleString \in {"true", "1"} THEN TRUE
          ELSE IF isVisibleString \in {"false", "0"} THEN FALSE
          ELSE TRUE
  ELSE TRUE

\* the Partial<Product> made of one row; a field that is undefined is absent
MappedProduct(row) ==
  Spread(Spread(Spread(Spread(Spread(Spread(Spread(
    [quantityType |-> QuantityTypeOf(row), isVisible |-> IsVisibleOf(row)],
    Defined("id", TextOf(row, "id"))),
    Defined("name", TextOf(row, "name"))),
    Defined("description", TextOf(row, "description"))),
    Defined("price", PriceOf(row))),
    Defined("imageUrl", TextOf(row, "imageUrl"))),
    Defined("barcode", TextOf(row, "barcode"))),
    Defined("stock", StockOf(row)))

StringFields == {"id", "name", "description", "imageUrl", "barcode", "quantityType"}

\* Object.values(p).some(val => val !== undefined &&
\*                             (typeof val === 'string' ? val.trim() !== '' : true))
Kept(p) == \E f \in DOMAIN p : IF f \in StringFields THEN Trim(p[f]) # <<>> ELSE TRUE

\* the imported object in the model's writing of ids and texts
ToPartialProduct(p) ==
  [f \in DOMAIN p |->
     IF f = "id" THEN IdOf(p.id) ELSE IF f \in StringFields THEN Str(p[f]) ELSE p[f]]

\* the lines of the files the administrator imports: a header line, then
\* rows that are empty, blank, or carry a number that is negative or no number
CsvHeader == << <<"id">>, <<"name">>, <<"price">>, <<"stock">> >>

CsvRows ==
  { << <<>>, <<>>, <<>>, <<>> >>,
    << <<" ">>, <<" ">>, <<" ">>, <<" ">> >>,
    << IdString(1), <<"Milk">>, <<"-", "5">>, <<"x">> >>,
    << <<>>, <<" ", "Milk", " ">>, <<"2", ".", "5">>, <<"-", "3">> >> }

CsvFiles == UNION {{<<CsvHeader>> \o rows : rows \in [1..n -> CsvRows]} : n \in 1..MaxRows}

\* handleExport('csv'): the file is downloaded; nothing else changes
HandleExport ==
  /\ UNCHANGED <<hasSeeded, inFlight, remote>>
  /\ ~isLoading
  /\ isAdmin
  /\ UNCHANGED <<dbProducts, dbOrders, dbSessions, lsSessionId, userSession, isAdmin, orders,
                 products, isLoading, currentOrderItems, now, deducted,
                 showAdminOrderNotification, lsLastView, sinceView>>
  /\ last' = [op |-> "handleExport", file |-> ExportToCsv(MapSeq(products, DataToExport)),
               catalog |-> products]

\* handleImportChange: parse, map, filter, and bulkAddProducts when a row is left
HandleImportChange(file, upsertOk, fetchOk) ==
  /\ UNCHANGED <<hasSeeded, inFlight, remote>>
  /\ ~isLoading
  /\ isAdmin
  /\ LET rows == ParseCsv(file)
         mappedProducts == MapSeq(rows, MappedProduct)
         importedProducts == SelectSeq(mappedProducts, Kept)
         productsToAdd == MapSeq(importedProducts, ToPartialProduct)
         productsToUpsert == ProductsToUpsert(productsToAdd, UsedProductIds)
         called == importedProducts # <<>>
         upserted == called /\ upsertOk /\ DistinctIds(productsToUpsert)
     IN /\ Cardinality(GenIds \ UsedProductIds) >=
              Cardinality({i \in 1..Len(productsToAdd) : ~Has(productsToAdd[i], "id")})
        /\ dbProducts' = IF upserted THEN Upsert(dbProducts, productsToUpsert) ELSE dbProducts
        /\ products' = IF called THEN Refetched(dbProducts', products, fetchOk) ELSE products
        /\ isLoading' = FALSE
        /\ UNCHANGED <<dbOrders, dbSessions, lsSessionId, userSession, isAdmin, orders,
                       currentOrderItems, now, deducted,
                       showAdminOrderNotification, lsLastView, sinceView>>
        /\ last' = [op |-> "handleImportChange", rows |-> rows,
                     mappedProducts |-> mappedProducts,
                     kept |-> [i \in 1..Len(mappedProducts) |-> Kept(mappedProducts[i])],
                     called |-> called, ok |-> upserted, fetched |-> called /\ fetchOk,
                     exported |-> (/\ last.op = "handleExport" /\ last.file = file
                                   /\ last.catalog = products
                                   /\ products = MapSeq(dbProducts, WithVisible)),
                     before |-> products,
                     same |-> Frame]

\* ---------------------------------------------- markAdminDashboardViewed
\* variant: the time of the view is not stored
LastViewKept(stored, time) == stored

\* localStorage.setItem(ADMIN_LAST_DASHBOARD_VIEW_TIMESTAMP_KEY, new Date().toISOString())
LastViewStored(stored, time) == <<time>>

\* tick: the clock moves on before the next operation reads it
MarkAdminDashboardViewed(tick) ==
  /\ UNCHANGED <<hasSeeded, inFlight, remote>>
  /\ ~isLoading
  /\ tick => now < MaxClock
  /\ IF isAdmin
     THEN /\ lsLastView' = LastViewStored(lsLastView, now)
          /\ showAdminOrderNotification' = FALSE
          /\ sinceView' = <<{}>>
     ELSE UNCHANGED <<lsLastView, showAdminOrderNotification, sinceView>>
  /\ now' = IF tick THEN now + 1 ELSE now
  /\ UNCHANGED <<dbProducts, dbOrders, dbSessions, lsSessionId, userSession, isAdmin,
                 orders, products, isLoading, currentOrderItems, deducted>>
  /\ last' = [op |-> "markAdminDashboardViewed", admin |-> isAdmin]

\* ------------------------------------------------------------------ Next
\* order taking and delivery: sessions, the cart, the order ledger and
\* stock reconciliation; any call to the backing store may fail
Next ==
  \/ \E lookupOk, prodOk, seedOk, ordOk \in BOOLEAN : Startup(lookupOk, prodOk, seedOk, ordOk)
  \/ \E email \in Emails, storeName \in StoreNames, insertOk, lookupOk, prodOk, seedOk, ordOk \in BOOLEAN :
        Login(email, storeName, insertOk, lookupOk, prodOk, seedOk, ordOk)
  \/ \E deleteOk \in BOOLEAN : Logout(deleteOk)
  \/ \E productId \in CartIds, quantity \in 1..MaxQty : HandleAddToCart(productId, quantity)
  \/ \E insertOk \in BOOLEAN : AddOrder(OrderIds, insertOk)
  \/ \E orderId \in OrderIds, newStatus \in OrderStatus, statusOk \in BOOLEAN :
        UpdateOrderStatus(orderId, newStatus, statusOk)
  \/ \E productData \in ProductInputs, insertOk \in BOOLEAN : AddProduct(productData, insertOk)

Spec == Init /\ [][Next]_vars

\* the five single-entity writes side by side: the reads of fetchAllData
\* succeed, every write may be rejected
NextWrites ==
  \/ Startup(TRUE, TRUE, TRUE, TRUE)
  \/ \E email \in Emails, storeName \in StoreNames, insertOk \in BOOLEAN :
        Login(email, storeName, insertOk, TRUE, TRUE, TRUE, TRUE)
  \/ \E deleteOk \in BOOLEAN : Logout(deleteOk)
  \/ \E productId \in CartIds, quantity \in 1..MaxQty : HandleAddToCart(productId, quantity)
  \/ \E insertOk \in BOOLEAN : AddOrder(OrderIds, insertOk)
  \/ \E orderId \in OrderIds, newStatus \in OrderStatus, statusOk \in BOOLEAN :
        UpdateOrderStatus(orderId, newStatus, statusOk)
  \/ \E productData \in ProductInputs, insertOk \in BOOLEAN : AddProduct(productData, insertOk)
  \/ \E productId \in GenIds, updatedProductData \in StockPatches, updateOk \in BOOLEAN :
        UpdateProduct(productId, updatedProductData, updateOk)
  \/ \E productId \in GenIds, deleteOk \in BOOLEAN : DeleteProduct(productId, deleteOk)

SpecWrites == Init /\ [][NextWrites]_vars

\* catalog administration by the administrator: loading and seeding, the
\* single-product writes and the bulk merge
CatalogProductInputs == {Spread(BaseProductData, [stock |-> MaxStock])}

CatalogPatches == {[isVisible |-> FALSE]}

NextCatalog ==
  \/ \E lookupOk, prodOk, seedOk, ordOk \in BOOLEAN : Startup(lookupOk, prodOk, seedOk, ordOk)
  \/ Restart
  \/ \E storeName \in StoreNames, insertOk, lookupOk, prodOk, seedOk, ordOk \in BOOLEAN :
        Login(ADMIN_EMAIL, storeName, insertOk, lookupOk, prodOk, seedOk, ordOk)
  \/ \E productData \in CatalogProductInputs, insertOk \in BOOLEAN : AddProduct(productData, insertOk)
  \/ \E productId \in TouchIds, updatedProductData \in CatalogPatches, updateOk \in BOOLEAN :
        UpdateProduct(productId, updatedProductData, updateOk)
  \/ \E productId \in TouchIds, deleteOk \in BOOLEAN : DeleteProduct(productId, deleteOk)
  \/ \E productsToAdd \in BulkInputs, upsertOk, fetchOk \in BOOLEAN :
        BulkAddProducts(productsToAdd, upsertOk, fetchOk)

SpecCatalog == Init /\ [][NextCatalog]_vars

\* the products the administrator deletes before exporting
CsvDeleteIds == SeedIds \ {1, 2, 3}

\* the catalog screen with its export and import buttons; every call of the
\* backing store succeeds
NextCsv ==
  \/ Startup(TRUE, TRUE, TRUE, TRUE)
  \/ \E storeName \in StoreNames : Login(ADMIN_EMAIL, storeName, TRUE, TRUE, TRUE, TRUE, TRUE)
  \/ \E productId \in CsvDeleteIds : DeleteProduct(productId, TRUE)
  \/ HandleExport
  \/ \E file \in CsvFiles \cup (IF last.op = "handleExport" THEN {last.file} ELSE {}) :
        HandleImportChange(file, TRUE, TRUE)

SpecCsv == Init /\ [][NextCsv]_vars

\* loads and reloads while the administrator empties the catalog
NextReseed ==
  \/ \E seedOk \in BOOLEAN : Startup(TRUE, TRUE, seedOk, TRUE)
  \/ Restart
  \/ \E storeName \in StoreNames, seedOk \in BOOLEAN :
        Login(ADMIN_EMAIL, storeName, TRUE, TRUE, TRUE, seedOk, TRUE)
  \/ Logout(TRUE)
  \/ \E productId \in SeedIds, deleteOk \in BOOLEAN : DeleteProduct(productId, deleteOk)

SpecReseed == Init /\ [][NextReseed]_vars

\* ------------------------------------------------ a second device
\* fetchAllData on a second administrator device, over a store that holds
\* products: its caches are the tables as they are now (its own session row
\* is left out)
RemoteLoad ==
  /\ Len(dbProducts) > 0
  /\ remote' = <<[orders |-> FetchOrders(TRUE), products |-> MapSeq(dbProducts, WithVisible)]>>
  /\ UNCHANGED <<dbProducts, dbOrders, dbSessions, lsSessionId, userSession, isAdmin, orders,
                 products, isLoading, currentOrderItems, now, showAdminOrderNotification,
                 lsLastView, sinceView, deducted, hasSeeded, inFlight>>
  /\ last' = [op |-> "remoteLoad"]

\* updateOrderStatus on the second device, every call succeeding: the
\* handler reads that device's caches and writes the shared tables
RemoteUpdateOrderStatus(orderId, newStatus) ==
  /\ remote # <<>>
  /\ UNCHANGED <<dbSessions, lsSessionId, userSession, isAdmin, orders, products, isLoading,
                 currentOrderItems, now, showAdminOrderNotification, lsLastView, sinceView,
                 hasSeeded, inFlight>>
  /\ LET orderToUpdate == OrderLookup(remote[1].orders, orderId)
     IN IF orderToUpdate = <<>>
        THEN /\ UNCHANGED <<dbOrders, dbProducts, deducted, remote>>
             /\ last' = [op |-> "remoteUpdateOrderStatus", orderId |-> orderId, found |-> FALSE]
        ELSE /\ dbOrders' = SetStatus(dbOrders, orderId, newStatus)
             /\ IF ShouldReconcile(orderToUpdate[1].status, newStatus)
                THEN LET plan == StockPlan(orderToUpdate[1].items, remote[1].products)
                         outcomes == [i \in 1..Len(plan) |-> "ok"]
                     IN /\ dbProducts' = ApplyStockUpdates(dbProducts, plan, outcomes)
                        /\ remote' = <<[orders |-> SetStatus(remote[1].orders, orderId, newStatus),
                                        products |-> ApplyLocally(remote[1].products, plan, outcomes)]>>
                        /\ deducted' = deducted \cup {<<orderId, plan[i].id>> : i \in 1..Len(plan)}
                ELSE /\ remote' = <<[orders |-> SetStatus(remote[1].orders, orderId, newStatus),
                                     products |-> remote[1].products]>>
                     /\ UNCHANGED <<dbProducts, deducted>>
             /\ last' = [op |-> "remoteUpdateOrderStatus", orderId |-> orderId, found |-> TRUE,
                          newStatus |-> newStatus,
                          reconciled |-> ShouldReconcile(orderToUpdate[1].status, newStatus)]

\* ---------------------------------------------- isLoading, call by call
\* the operations that begin with setIsLoading(true)
Operations ==
  {"fetchAllData", "login", "logout", "addOrder", "updateOrderStatus",
   "addProduct", "updateProduct", "deleteProduct", "bulkAddProducts"}

\* the places where an operation ends: the early return taken when its first
\* backing-store call fails or its order is unknown, and the end of its body,
\* which every other path reaches (failed calls are logged, rejected stock
\* updates are caught)
Exits(op) ==
  CASE op \in {"login", "addOrder", "addProduct"} -> {"insertError", "end"}
    [] op = "updateOrderStatus" -> {"notFound", "end"}
    [] OTHER -> {"end"}

\* variant: an early return leaves the flag set
LoadingAtExitEndOnly(op, exit) == exit # "end"

\* setIsLoading(false) stands before every return and at the end of every body
LoadingAtExit(op, exit) == FALSE

\* the provider has just been constructed: isLoading is true and the
\* start-up effect has called fetchAllData
InitLoading ==
  /\ dbProducts = <<>>
  /\ dbOrders = <<>>
  /\ dbSessions = {}
  /\ lsSessionId = <<>>
  /\ userSession = <<>>
  /\ isAdmin = FALSE
  /\ orders = <<>>
  /\ products = <<>>
  /\ isLoading = TRUE
  /\ currentOrderItems = <<>>
  /\ now = 1
  /\ showAdminOrderNotification = FALSE
  /\ lsLastView = <<>>
  /\ sinceView = <<>>
  /\ last = [op |-> "init"]
  /\ deducted = {}
  /\ hasSeeded = FALSE
  /\ inFlight = {"fetchAllData"}
  /\ remote = <<>>

\* a handler calls the operation: its first statement is setIsLoading(true)
Call(op) ==
  /\ op \notin inFlight
  /\ Cardinality(inFlight) < MaxInFlight
  /\ isLoading' = TRUE
  /\ inFlight' = inFlight \cup {op}
  /\ UNCHANGED <<dbProducts, dbOrders, dbSessions, lsSessionId, userSession, isAdmin, orders,
                 products, currentOrderItems, now, showAdminOrderNotification, lsLastView,
                 sinceView, deducted, hasSeeded, remote>>
  /\ last' = [op |-> op, step |-> "call"]

\* the operation's awaited calls have settled and it returns at exit
Return(op, exit) ==
  /\ op \in inFlight
  /\ isLoading' = LoadingAtExit(op, exit)
  /\ inFlight' = inFlight \ {op}
  /\ UNCHANGED <<dbProducts, dbOrders, dbSessions, lsSessionId, userSession, isAdmin, orders,
                 products, currentOrderItems, now, showAdminOrderNotification, lsLastView,
                 sinceView, deducted, hasSeeded, remote>>
  /\ last' = [op |-> op, step |-> "return", exit |-> exit]

Returns(op) == \E exit \in Exits(op) : Return(op, exit)

NextLoading ==
  \/ \E op \in Operations : Call(op)
  \/ \E op \in Operations : Returns(op)

\* every awaited call of the backing store settles, with data or with an
\* error, so an operation in flight returns
SpecLoading ==
  InitLoading /\ [][NextLoading]_vars /\ \A op \in Operations : WF_vars(Returns(op))

\* the order ledger and the administrator's notification: a store owner
\* submits orders of a default product, the administrator moves them through
\* their statuses short of delivery and views the dashboard; reads succeed,
\* the two writes to table orders may be rejected
LedgerOrderIds == 1..(MaxOrders + 1)

LedgerStatuses == {PENDING, PREPARING, CANCELLED}

NextLedger ==
  \/ Startup(TRUE, TRUE, TRUE, TRUE)
  \/ Restart
  \/ \E email \in Emails, storeName \in StoreNames :
        Login(email, storeName, TRUE, TRUE, TRUE, TRUE, TRUE)
  \/ Logout(TRUE)
  \/ HandleAddToCart(1, 1)
  \/ \E insertOk \in BOOLEAN : AddOrder(LedgerOrderIds, insertOk)
  \/ \E orderId \in LedgerOrderIds, newStatus \in LedgerStatuses, statusOk \in BOOLEAN :
        UpdateOrderStatus(orderId, newStatus, statusOk)
  \/ \E tick \in BOOLEAN : MarkAdminDashboardViewed(tick)

SpecLedger == Init /\ [][NextLedger]_vars

\* the orders the two administrators deliver: the first on this device, the
\* second on the other one
LocalOrderId == 1

RemoteOrderId == 2

\* store owners order product prod_1; two administrators, each on a device
\* of their own, deliver the orders
NextDevices ==
  \/ Startup(TRUE, TRUE, TRUE, TRUE)
  \/ \E email \in Emails, storeName \in StoreNames :
        Login(email, storeName, TRUE, TRUE, TRUE, TRUE, TRUE)
  \/ Logout(TRUE)
  \/ HandleAddToCart(1, 1)
  \/ AddOrder(LedgerOrderIds, TRUE)
  \/ UpdateOrderStatus(LocalOrderId, DELIVERED, TRUE)
  \/ RemoteLoad
  \/ RemoteUpdateOrderStatus(RemoteOrderId, DELIVERED)

SpecDevices == Init /\ [][NextDevices]_vars

\* sessions: login, restore at start-up and logout, with an email that
\* differs from the administrator's by the case of one letter; the session
\* lookup, the session insert and delete and the fetches may fail; an order
\* is on record so that logout has a cached list to empty
SessionEmails == Emails \cup {"Admin@laiterie.com"}

NextSession ==
  \/ \E lookupOk, prodOk, ordOk \in BOOLEAN : Startup(lookupOk, prodOk, TRUE, ordOk)
  \/ Restart
  \/ \E email \in SessionEmails, storeName \in StoreNames, insertOk, lookupOk, ordOk \in BOOLEAN :
        Login(email, storeName, insertOk, lookupOk, TRUE, TRUE, ordOk)
  \/ \E deleteOk \in BOOLEAN : Logout(deleteOk)
  \/ HandleAddToCart(1, 1)
  \/ \E insertOk \in BOOLEAN : AddOrder(OrderIds, insertOk)
  \/ \E orderId \in OrderIds, newStatus \in LedgerStatuses :
        UpdateOrderStatus(orderId, newStatus, TRUE)

\* the device may start with a session key whose row table sessions no
\* longer holds
InitSession ==
  /\ dbProducts = <<>>
  /\ dbOrders = <<>>
  /\ dbSessions = {}
  /\ lsSessionId \in {<<>>} \cup {<<i>> : i \in SessionIds}
  /\ userSession = <<>>
  /\ isAdmin = FALSE
  /\ orders = <<>>
  /\ products = <<>>
  /\ isLoading = TRUE
  /\ currentOrderItems = <<>>
  /\ now = 1
  /\ showAdminOrderNotification = FALSE
  /\ lsLastView = <<>>
  /\ sinceView = <<>>
  /\ last = [op |-> "init"]
  /\ deducted = {}
  /\ hasSeeded = FALSE
  /\ inFlight = {}
  /\ remote = <<>>

SpecSession == InitSession /\ [][NextSession]_vars

\* ============================================================ properties
\* the state was produced by an updateOrderStatus whose status write succeeded
StatusWritten == last.op = "updateOrderStatus" /\ last.found /\ last.ok

\* ... and that moved the cached order from a non-Delivered status to Delivered
DeliveredNow == StatusWritten /\ last.newStatus = DELIVERED /\ ~last.wasDelivered

AllOk(outcomes) == \A i \in 1..Len(outcomes) : outcomes[i].outcome = "ok"

\* max(0, s - q), written out
Floored(st, q) == IF st - q > 0 THEN st - q ELSE 0

\* every copy of product id in prods carries the numeric stock st
StockIs(prods, id, st) ==
  \A i \in 1..Len(prods) : prods[i].id = id => (Has(prods[i], "stock") /\ prods[i].stock = st)

\* C1: when updateOrderStatus moves an order from a non-Delivered status to
\* Delivered and every backing-store call succeeds, then for every item whose
\* product is in the cached catalog with numeric stock s, the stock afterwards
\* is max(0, s - quantity), in the cached catalog and in table products.
C1_DeliveryDeductsStock ==
  (DeliveredNow /\ AllOk(last.outcomes)) =>
    \A k \in 1..Len(last.items) :
      last.items[k].stock # <<>> =>
        /\ Find(products, last.items[k].id) # <<>>
        /\ StockIs(products, last.items[k].id, Floored(last.items[k].stock[1], last.items[k].quantity))
        /\ StockIs(dbProducts, last.items[k].id, Floored(last.items[k].stock[1], last.items[k].quantity))

\* a delivery of two items, both stock updates applied to rows of the
\* table, one with stock to spare, one with less stock than ordered
C1_Witness ==
  /\ DeliveredNow /\ AllOk(last.outcomes) /\ Len(last.outcomes) = 2
  /\ \A k \in 1..2 : Find(dbProducts, last.items[k].id) # <<>>
  /\ \E k \in 1..2 : last.items[k].stock[1] < last.items[k].quantity
  /\ \E k \in 1..2 : last.items[k].stock[1] >= last.items[k].quantity

\* C2: over any sequence of updateOrderStatus calls on an order, each ordered
\* item's quantity is deducted from its product's stock at most one time.
C2_DeductedAtMostOnce == ~(StatusWritten /\ last.again)

\* C3: updateOrderStatus(orderId, Delivered) on an order whose cached status
\* is already Delivered changes no product, in the cache or in table products.
C3_RedeliveryKeepsStock ==
  (StatusWritten /\ last.newStatus = DELIVERED /\ last.wasDelivered) =>
    (last.same.products /\ last.same.dbProducts /\ last.same.deducted)

\* Delivered was written onto a Delivered order one of whose products has
\* stock left in the cache and in the table
C3_Witness ==
  /\ StatusWritten /\ last.newStatus = DELIVERED /\ last.wasDelivered
  /\ \E k \in 1..Len(Find(orders, last.orderId)[1].items) :
        LET id == Find(orders, last.orderId)[1].items[k].productId
        IN /\ Find(products, id) # <<>> /\ Has(Find(products, id)[1], "stock")
           /\ Find(products, id)[1].stock > 0
           /\ Find(dbProducts, id) # <<>> /\ Has(Find(dbProducts, id)[1], "stock")
           /\ Find(dbProducts, id)[1].stock > 0

\* C4: every product with a numeric stock has stock >= 0, in the cached
\* catalog and in table products.
C4_StockNeverNegative ==
  /\ \A i \in 1..Len(products) : Has(products[i], "stock") => products[i].stock >= 0
  /\ \A i \in 1..Len(dbProducts) : Has(dbProducts[i], "stock") => dbProducts[i].stock >= 0

\* a delivery that asked for more than the stock was applied to the table
C4_Witness ==
  /\ DeliveredNow
  /\ \E k \in 1..Len(last.items), i \in 1..Len(last.outcomes) :
        /\ last.items[k].stock # <<>>
        /\ last.items[k].stock[1] < last.items[k].quantity
        /\ last.outcomes[i].id = last.items[k].id
        /\ last.outcomes[i].outcome = "ok"
        /\ Find(dbProducts, last.items[k].id) # <<>>

\* C8: if a per-item stock update fails during delivery reconciliation, the
\* order is Delivered in table orders and in the cache, every other item's
\* update that succeeded is in table products, and it is in the cache too
\* unless a call rejected.
C8_PartialFailureKeepsRest ==
  (DeliveredNow /\ ~AllOk(last.outcomes)) =>
    /\ Find(orders, last.orderId)[1].status = DELIVERED
    /\ Find(dbOrders, last.orderId)[1].status = DELIVERED
    /\ \A i \in 1..Len(last.outcomes), k \in 1..Len(last.items) :
         (last.outcomes[i].outcome = "ok" /\ last.items[k].id = last.outcomes[i].id) =>
           /\ StockIs(dbProducts, last.items[k].id,
                      Floored(last.items[k].stock[1], last.items[k].quantity))
           /\ (\A j \in 1..Len(last.outcomes) : last.outcomes[j].outcome # "reject") =>
                 StockIs(products, last.items[k].id,
                         Floored(last.items[k].stock[1], last.items[k].quantity))

\* two items, one update failed, the other was applied and took stock away
C8_Witness ==
  /\ DeliveredNow /\ Len(last.outcomes) = 2
  /\ \E i, j \in 1..2, k \in 1..Len(last.items) :
        /\ last.outcomes[i].outcome # "ok"
        /\ last.outcomes[j].outcome = "ok"
        /\ last.items[k].id = last.outcomes[j].id
        /\ last.items[k].stock[1] >= last.items[k].quantity
        /\ Find(dbProducts, last.items[k].id) # <<>>

\* the state was produced by a single-entity write the backing store rejected
WriteRejected ==
  \/ last.op \in {"addOrder", "addProduct", "updateProduct", "deleteProduct"} /\ ~last.ok
  \/ last.op = "updateOrderStatus" /\ last.found /\ ~last.ok

\* C9: when the backing store rejects addOrder, addProduct, updateProduct,
\* deleteProduct or the status write of updateOrderStatus, the cached orders
\* and catalog are what they were, no stock is reconciled, and addOrder and
\* addProduct return null.
C9_RejectedWriteChangesNothing ==
  WriteRejected =>
    /\ last.same.orders /\ last.same.products
    /\ last.same.dbOrders /\ last.same.dbProducts /\ last.same.deducted
    /\ (last.op \in {"addOrder", "addProduct"} => last.result = <<>>)

\* a rejected status write on a cached Pending order with stock to deduct
C9_Witness ==
  /\ last.op = "updateOrderStatus" /\ last.found /\ ~last.ok
  /\ Find(orders, last.orderId)[1].status = PENDING
  /\ StockPlan(Find(orders, last.orderId)[1].items, products) # <<>>

\* C10: updateOrderStatus with an order id that is not in the cached order
\* list writes nothing to the backing store and changes no order, no product.
C10_UnknownOrderNoAction ==
  (last.op = "updateOrderStatus" /\ ~last.cached) =>
    /\ ~last.found
    /\ last.same.orders /\ last.same.products
    /\ last.same.dbOrders /\ last.same.dbProducts /\ last.same.deducted

\* the id was not cached although table orders holds that order
C10_Witness ==
  /\ last.op = "updateOrderStatus" /\ ~last.cached
  /\ Find(dbOrders, last.orderId) # <<>>

\* C5: a bulkAddProducts row whose id matches an existing product updates it
\* in place: the fields the row sets take the row's values, every field the
\* row leaves unset keeps the existing product's value.
C5_BulkRowMergesOntoExisting ==
  (last.op = "bulkAddProducts" /\ last.ok /\ last.fetched) =>
    \A i \in 1..Len(last.productsToAdd) :
      last.existing[i] # <<>> =>
        LET row == last.productsToAdd[i]
            old == last.existing[i][1]
        IN \A f \in DOMAIN old :
             /\ Find(dbProducts, row.id)[1][f] = (IF f \in DOMAIN row THEN row[f] ELSE old[f])
             /\ Find(products, row.id)[1][f] = (IF f \in DOMAIN row THEN row[f] ELSE old[f])

\* the state was produced by the second of two successive bulkAddProducts
\* calls with the same rows, the upsert and the re-fetch of both succeeded
BulkRepeated == last.op = "bulkAddProducts" /\ last.ok /\ last.fetched /\ last.repeated

\* C6 as stated: calling bulkAddProducts with the same rows twice yields the
\* same catalog as calling it once, for rows with and without an id.
C6_BulkIdempotentAnyRows == BulkRepeated => (last.same.products /\ last.same.dbProducts)

\* C6 as amended: the same, for row sequences in which every row carries an id.
C6_BulkIdempotentRowsWithId ==
  (BulkRepeated /\ \A i \in 1..Len(last.productsToAdd) : Has(last.productsToAdd[i], "id")) =>
    (last.same.products /\ last.same.dbProducts)

\* a repeated call of two rows with ids, one of an existing default product
C6_Witness ==
  /\ BulkRepeated
  /\ Len(last.productsToAdd) = 2
  /\ \A i \in 1..2 : Has(last.productsToAdd[i], "id") /\ last.existing[i] # <<>>

\* C7: no two products of the catalog share an id, in the cache or in table
\* products.
C7_ProductIdsUnique ==
  /\ Cardinality(Ids(products)) = Len(products)
  /\ Cardinality(Ids(dbProducts)) = Len(dbProducts)

\* a bulk merge of a row with an existing id and a row without id went through
C7_Witness ==
  /\ last.op = "bulkAddProducts" /\ last.ok /\ last.fetched /\ ~last.repeated
  /\ \E i, j \in 1..Len(last.productsToAdd) :
        /\ last.existing[i] # <<>>
        /\ ~Has(last.productsToAdd[j], "id")
  /\ Len(products) > Len(INITIAL_PRODUCTS)

\* how many entries of os carry the id
Copies(os, id) == Cardinality({i \in 1..Len(os) : os[i].id = id})

\* C11: an order created by addOrder has status Pending and an id no other
\* order of the ledger has; on success it is the last entry of the cached
\* order list, with the storeName, userEmail and items that were submitted.
C11_NewOrderPendingAndUnique ==
  (last.op = "addOrder" /\ last.ok) =>
    LET o == last.result[1]
    IN /\ o.status = "Pending"
       /\ Copies(dbOrders, o.id) = 1
       /\ Copies(orders, o.id) = 1
       /\ orders[Len(orders)] = o
       /\ o.storeName = last.newOrderData.storeName
       /\ o.userEmail = last.newOrderData.userEmail
       /\ o.items = last.newOrderData.items
       /\ o.items # <<>>

\* an order was added to a ledger that held another order already
C11_Witness ==
  /\ last.op = "addOrder" /\ last.ok
  /\ Len(orders) = 2 /\ Len(dbOrders) = 2

\* the fields of an order that are fixed at creation
Identity(o) ==
  [id |-> o.id, storeName |-> o.storeName, userEmail |-> o.userEmail,
   items |-> o.items, orderDate |-> o.orderDate]

\* C12: no step changes the id, storeName, userEmail, items or orderDate of
\* an order of table orders or of the cached list, and an updateOrderStatus
\* step leaves every order other than the targeted one as it was.
C12_OnlyStatusChanges ==
  [][/\ \A i \in 1..Len(dbOrders) :
          i <= Len(dbOrders') /\ Identity(dbOrders'[i]) = Identity(dbOrders[i])
     /\ \A i \in 1..Len(orders), j \in 1..Len(orders') :
          orders'[j].id = orders[i].id => Identity(orders'[j]) = Identity(orders[i])
     /\ (last'.op = "updateOrderStatus") =>
          /\ Len(orders') = Len(orders) /\ Len(dbOrders') = Len(dbOrders)
          /\ \A i \in 1..Len(orders) : orders[i].id # last'.orderId => orders'[i] = orders[i]
          /\ \A i \in 1..Len(dbOrders) : dbOrders[i].id # last'.orderId => dbOrders'[i] = dbOrders[i]
    ]_vars

\* a status was written while the ledger held a second order, which kept a
\* different status
C12_Witness ==
  /\ last.op = "updateOrderStatus" /\ last.found /\ last.ok
  /\ Len(orders) = 2
  /\ \E i \in 1..2 : orders[i].id # last.orderId /\ orders[i].status # last.newStatus
  /\ Find(orders, last.orderId)[1].status = last.newStatus

\* C13: after a successful addProduct(p), getProductById(result.id) returns
\* a product whose fields are those of p, with isVisible true when p did not
\* set it, and the other products of the catalog are as they were.
C13_AddedProductIsReturned ==
  [][(last'.op = "addProduct" /\ last'.ok) =>
       LET p == last'.productData
           got == Find(products', last'.result[1].id)   \* getProductById after the call
       IN /\ got # <<>>
          /\ got[1] = last'.result[1]
          /\ DOMAIN got[1] = DOMAIN p \cup {"id", "isVisible"}
          /\ \A f \in DOMAIN p : got[1][f] = p[f]
          /\ (~Has(p, "isVisible")) => got[1].isVisible = TRUE
          /\ Len(products') = Len(products) + 1
          /\ SubSeq(products', 1, Len(products)) = products
          /\ Len(dbProducts') = Len(dbProducts) + 1
          /\ SubSeq(dbProducts', 1, Len(dbProducts)) = dbProducts
    ]_vars

\* a product that sets neither stock nor isVisible was added to the seeded
\* catalog
C13_Witness ==
  /\ last.op = "addProduct" /\ last.ok
  /\ ~Has(last.productData, "isVisible") /\ ~Has(last.productData, "stock")
  /\ Len(products) > Len(INITIAL_PRODUCTS)
  /\ GetProductById(last.result[1].id) # <<>>

\* prods' is prods with the fields of patch written onto the product id
MergedAt(prods, after, id, patch) ==
  /\ Len(after) = Len(prods)
  /\ \A i \in 1..Len(prods) :
       after[i] = (IF prods[i].id = id THEN Spread(prods[i], patch) ELSE prods[i])

\* C14 as stated: a successful updateProduct(id, partialData) sets exactly
\* the fields of partialData and preserves every other field of that product
\* and every other product, in the cached catalog as in table products; a
\* call that does not succeed leaves both unchanged.
C14_UpdateMergesEverywhere ==
  [][(last'.op = "updateProduct") =>
       IF last'.ok
       THEN /\ MergedAt(dbProducts, dbProducts', last'.productId, last'.updatedProductData)
            /\ MergedAt(products, products', last'.productId, last'.updatedProductData)
       ELSE products' = products /\ dbProducts' = dbProducts
    ]_vars

\* C14 as amended: a successful updateProduct(id, partialData) sets exactly
\* the fields of partialData on the stored product and preserves its other
\* fields; the cached copy of the product becomes the stored record, so it
\* keeps its other fields when it agreed with the stored record before;
\* every other product is unchanged in both; when table products has no
\* product with the id, or the write is rejected, both are unchanged.
C14_UpdateMergesStoredRecord ==
  [][(last'.op = "updateProduct") =>
       IF last'.ok
       THEN LET id == last'.productId
                patch == last'.updatedProductData
            IN /\ Find(dbProducts, id) # <<>>
               /\ MergedAt(dbProducts, dbProducts', id, patch)
               /\ Len(products') = Len(products)
               /\ \A i \in 1..Len(products) :
                    products'[i] = (IF products[i].id = id
                                    THEN WithVisible(Find(dbProducts', id)[1])
                                    ELSE products[i])
               /\ (Find(products, id) = <<WithVisible(Find(dbProducts, id)[1])>>)
                     => MergedAt(products, products', id, patch)
       ELSE products' = products /\ dbProducts' = dbProducts
    ]_vars

\* an update went through on a product of a catalog of several products and
\* changed the value of a field
C14_Witness ==
  /\ last.op = "updateProduct" /\ last.ok
  /\ Len(products) >= Len(INITIAL_PRODUCTS) /\ Len(dbProducts) >= Len(INITIAL_PRODUCTS)
  /\ Find(products, last.productId) # <<>>
  /\ Find(products, last.productId)[1].isVisible = FALSE
  /\ Find(products, last.productId)[1].name = INITIAL_PRODUCTS[1].name

\* C15: deleteProduct with an id that is not in the catalog leaves the
\* catalog unchanged, in the cache and in table products; a deleteProduct
\* that follows a successful deleteProduct of the same id changes nothing;
\* after a successful deleteProduct no product has the id.
C15_DeleteTwiceIsDeleteOnce ==
  [][(last'.op = "deleteProduct") =>
       /\ (last'.productId \notin Ids(products)) => products' = products
       /\ (last'.productId \notin Ids(dbProducts)) => dbProducts' = dbProducts
       /\ (last.op = "deleteProduct" /\ last.ok /\ last.productId = last'.productId)
             => (products' = products /\ dbProducts' = dbProducts)
       /\ last'.ok => (last'.productId \notin Ids(products') /\ last'.productId \notin Ids(dbProducts'))
    ]_vars

\* a deleteProduct of an id that neither the cache nor the table holds was
\* accepted, on a catalog that is not empty
C15_Witness ==
  /\ last.op = "deleteProduct" /\ last.ok
  /\ last.same.products /\ last.same.dbProducts
  /\ products # <<>> /\ dbProducts # <<>>

\* C16: when fetchAllData finds table products empty and the seed insert
\* succeeds, the cached catalog and table products are exactly the 6
\* products of INITIAL_PRODUCTS, in their order, each with isVisible true.
C16_EmptyStoreIsSeeded ==
  (last.op \in {"fetchAllData", "login"} /\ last.seeded) =>
    /\ Len(products) = 6 /\ Len(dbProducts) = 6
    /\ \A i \in 1..6 :
         /\ products[i] = INITIAL_PRODUCTS[i]
         /\ dbProducts[i] = INITIAL_PRODUCTS[i]
         /\ products[i].isVisible = TRUE /\ dbProducts[i].isVisible = TRUE
         /\ products[i].id = i

\* the start-up fetch seeded the empty table
C16_Witness ==
  /\ last.op = "fetchAllData" /\ last.seeded
  /\ ~isLoading
  /\ Len(dbProducts) = Len(INITIAL_PRODUCTS)

\* C17: showAdminOrderNotification is true exactly when the session is an
\* administrator's and some cached order is Pending and either no last-view
\* timestamp is stored or the order's orderDate is later than it; for a
\* non-administrator it is false.
C17_NotificationFlag ==
  /\ showAdminOrderNotification =
       (/\ isAdmin
        /\ \E i \in 1..Len(orders) :
             /\ orders[i].status = "Pending"
             /\ (lsLastView = <<>> \/ orders[i].orderDate > lsLastView[1]))
  /\ ~isAdmin => ~showAdminOrderNotification

\* the flag is up for an administrator who viewed the dashboard before,
\* while an order older than the view is Pending too
C17_Witness ==
  /\ showAdminOrderNotification /\ isAdmin /\ lsLastView # <<>>
  /\ \E i \in 1..Len(orders) : orders[i].status = PENDING /\ orders[i].orderDate <= lsLastView[1]

\* C18: right after an administrator's markAdminDashboardViewed the flag is
\* false, and from then on it is true only while an order created after
\* that call is cached with status Pending.
C18_ViewedStaysQuiet ==
  /\ (last.op = "markAdminDashboardViewed" /\ last.admin) => ~showAdminOrderNotification
  /\ (sinceView # <<>> /\ showAdminOrderNotification) =>
       \E i \in 1..Len(orders) : orders[i].status = PENDING /\ orders[i].id \in sinceView[1]

\* the administrator logged in again after a view, an order from before the
\* view is Pending, the flag was recomputed and is down
C18_Witness ==
  /\ last.op = "login" /\ isAdmin /\ sinceView # <<>>
  /\ ~showAdminOrderNotification
  /\ \E i \in 1..Len(orders) : orders[i].status = PENDING /\ orders[i].id \notin sinceView[1]

\* C19: while no operation is in flight, isAdmin is true exactly when a
\* session is active and its email is, letter for letter, ADMIN_EMAIL; in
\* every state isAdmin is false while userSession is null.
C19_AdminIffAdminEmail ==
  /\ ~isLoading =>
       (isAdmin <=> (userSession # <<>> /\ userSession[1].email = "admin@laiterie.com"))
  /\ userSession = <<>> => ~isAdmin

\* a session whose email is the administrator's but for the case of a
\* letter was restored at start-up and is not an administrator's
C19_Witness ==
  /\ last.op = "fetchAllData" /\ ~isLoading
  /\ userSession # <<>> /\ userSession[1].email = "Admin@laiterie.com"
  /\ ~isAdmin

\* C20: once logout has completed the local session id is absent,
\* userSession is null, isAdmin is false and the cached order list is empty,
\* whether or not the session row was deleted; when it was deleted, table
\* sessions holds no row with the id that was stored locally.
C20_LogoutClearsSession ==
  (last.op = "logout") =>
    /\ lsSessionId = <<>> /\ userSession = <<>> /\ ~isAdmin /\ orders = <<>>
    /\ ~isLoading
    /\ last.deleted => (\A r \in dbSessions : r.id # last.sessionId[1])

\* the deletion of the session row failed with orders on record: the row is
\* still there, the local state is cleared
C20_Witness ==
  /\ last.op = "logout" /\ ~last.deleted /\ last.sessionId # <<>>
  /\ \E r \in dbSessions : r.id = last.sessionId[1]
  /\ dbOrders # <<>>
  /\ orders = <<>> /\ userSession = <<>>

RecognizedColumns == {ExportColumns[k] : k \in DOMAIN ExportColumns}

\* every recognized column of the row is absent or empty after trimming
EmptyRow(row) == \A c \in RecognizedColumns : Has(row, c) => Trim(row[c]) = <<>>

\* C22: a row of an imported file in which every recognized column is empty
\* or absent after trimming is discarded: it is not among the rows handed to
\* bulkAddProducts
C22_EmptyRowDiscarded ==
  last.op = "handleImportChange" =>
    \A i \in 1..Len(last.rows) : EmptyRow(last.rows[i]) => ~last.kept[i]

\* C23: the record made of an imported row carries a price, and a stock, only
\* when it is not negative
C23_NoNegativeNumbers ==
  last.op = "handleImportChange" =>
    \A i \in 1..Len(last.mappedProducts) :
       /\ Has(last.mappedProducts[i], "price") => last.mappedProducts[i].price >= 0
       /\ Has(last.mappedProducts[i], "stock") => last.mappedProducts[i].stock >= 0

\* C24: importing the file that was just exported, with the upsert and the
\* re-fetch succeeding, leaves a catalog with the same ids and, for each id,
\* the same field values
C24_ExportImportRoundTrip ==
  (last.op = "handleImportChange" /\ last.exported /\ last.before # <<>>
     /\ last.ok /\ last.fetched) =>
    /\ Ids(products) = Ids(last.before)
    /\ \A id \in Ids(last.before) : Find(products, id) = Find(last.before, id)


\* -------------------------------------------- statuses other than Delivered
\* C25: a call of updateOrderStatus whose new status is not Delivered leaves
\* the catalog, and so every product's stock, as it was, in the cache and in
\* table products, and applies no stock update.  (A call that finds no order
\* or whose status write fails takes the same step for every new status.)
C25_OtherStatusKeepsStock ==
  (last.op = "updateOrderStatus" /\ (StatusWritten => last.newStatus # DELIVERED)) =>
    (last.same.products /\ last.same.dbProducts /\ last.same.deducted)

\* a status other than Delivered was written onto an order that was not
\* Delivered and one of whose products has stock left in the cache and in
\* the table
C25_Witness ==
  /\ StatusWritten /\ last.newStatus # DELIVERED /\ ~last.wasDelivered
  /\ Find(orders, last.orderId)[1].status = last.newStatus
  /\ \E k \in 1..Len(Find(orders, last.orderId)[1].items) :
        LET id == Find(orders, last.orderId)[1].items[k].productId
        IN /\ Find(products, id) # <<>> /\ Has(Find(products, id)[1], "stock")
           /\ Find(products, id)[1].stock >= Find(orders, last.orderId)[1].items[k].quantity
           /\ Find(dbProducts, id) # <<>> /\ Has(Find(dbProducts, id)[1], "stock")
           /\ Find(dbProducts, id)[1].stock >= Find(orders, last.orderId)[1].items[k].quantity


\* ------------------------------------------------- bulk merge and cache
\* C26: when bulkAddProducts has completed and its final re-fetch succeeded,
\* the cached catalog is the content of table products, whether the upsert
\* went through or failed.
C26_BulkLeavesCacheEqualStore ==
  (last.op = "bulkAddProducts" /\ last.fetched) => products = MapSeq(dbProducts, WithVisible)

\* the upsert failed, the re-fetch succeeded, and the cache, which was not
\* the content of the table before, was replaced by it
C26_Witness ==
  /\ last.op = "bulkAddProducts" /\ last.fetched /\ ~last.ok
  /\ ~last.same.products /\ last.same.dbProducts
  /\ products = MapSeq(dbProducts, WithVisible)


\* ---------------------------------------------------------------- seeding
\* C27: once a load has inserted the default catalog, no later load (start
\* of the application or the reload of login) inserts it again, whatever was
\* deleted in between.
C27_SeedingIsOneTime ==
  (last.op \in {"fetchAllData", "login"} /\ last.seeded) => ~last.seededBefore


\* ------------------------------------------- cache and store after delivery
\* the stock of product id in prods: <<>> when there is no such product or
\* it has no stock, else <<stock>>
StockIn(prods, id) ==
  IF Find(prods, id) # <<>> /\ Has(Find(prods, id)[1], "stock")
  THEN <<Find(prods, id)[1].stock>> ELSE <<>>

\* C30: after a delivery reconciliation has finished, every product of the
\* order that is in the cached catalog with a stock and in table products
\* has the same stock in both, also when stock updates returned an error or
\* the joined update rejected.
C30_CacheEqualsStoreAfterDelivery ==
  (StatusWritten /\ last.reconciled) =>
    \A k \in 1..Len(last.items) :
       (last.items[k].stock # <<>> /\ Find(dbProducts, last.items[k].id) # <<>>) =>
          StockIn(products, last.items[k].id) = StockIn(dbProducts, last.items[k].id)


OrderedQuantity(orderId, id) ==
  LET items == Find(dbOrders, orderId)[1].items
  IN items[CHOOSE k \in 1..Len(items) : items[k].productId = id].quantity

\* C29: when two orders that hold product prod_1 have both been delivered,
\* each stock update applied, the stored stock of prod_1 is the initial
\* stock less the two quantities (floored at zero each time), whichever
\* device delivered and in whatever order: no decrement is lost.
C29_NoLostDecrement ==
  ({<<LocalOrderId, 1>>, <<RemoteOrderId, 1>>} \subseteq deducted) =>
    StockIs(dbProducts, 1,
            Floored(Floored(INITIAL_PRODUCTS[1].stock, OrderedQuantity(LocalOrderId, 1)),
                    OrderedQuantity(RemoteOrderId, 1)))

====
